---- MODULE Spec2Model ----
(***************************************************************************)
(* A model of the PDU assembler of rust-smpp (src/pdu/pdu.rs) and of two   *)
(* of its body codecs (bind_transmitter.rs, submit_sm_resp.rs).            *)
(*                                                                         *)
(* Bytes are integers 0..255 and a byte source is a sequence of bytes.     *)
(* A reader over a source is a view (the bytes the reader may still hand   *)
(* out) together with a position in it; every read operator returns the    *)
(* new position, so that the number of consumed bytes is part of a result. *)
(***************************************************************************)
EXTENDS Integers, Sequences, FiniteSets, TLC

\* ------------------------------------------------------------------ bounds

\* How many bytes the declared length, or the input, may fall short of the record.
MaxCut == 8
\* How many bytes may follow the last field of a body / the record.
MaxExtra == 2
\* How many PDUs a stream holds back to back.
MaxStream == 2
\* How many bytes fewer than it is offered a sink's write call may accept.
MaxShort == 1

\* --------------------------------------------------------------- constants

\* A u32 is kept as its most significant byte and its low 24 bits:
\* U(hi, lo) is hi * 2^24 + lo, with hi in 0..255 and lo in 0..2^24 - 1.
Lo24 == 256 * 65536

U(hi, lo) == [hi |-> hi, lo |-> lo]

\* n as a u32 (`as u32` for a non-negative n below 2^31).
U32(n) == U((n \div Lo24) % 256, n % Lo24)

\* v < n and v > n for a u32 v and a number n below 2^24.
U32_lt(v, n) == v.hi = 0 /\ v.lo < n
U32_gt(v, n) == v.hi > 0 \/ v.lo > n

\* v - n in u32 arithmetic without overflow checks (n below 2^24).
wrapping_sub(v, n) ==
    IF v.lo >= n THEN U(v.hi, v.lo - n)
    ELSE U((v.hi + 255) % 256, v.lo + Lo24 - n)

BIND_TRANSMITTER == U(0, 2)
BIND_TRANSMITTER_RESP == U(128, 2)
SUBMIT_SM == U(0, 4)
SUBMIT_SM_RESP == U(128, 4)
GENERIC_NACK == U(128, 0)

MAX_LENGTH_SYSTEM_ID == 16
MAX_LENGTH_PASSWORD == 9
MAX_LENGTH_SYSTEM_TYPE == 13
MAX_LENGTH_ADDRESS_RANGE == 41
MAX_LENGTH_MESSAGE_ID == 65

MIN_PDU_LENGTH == 8
MAX_PDU_LENGTH == 70000

\* An absent Option<u32>.
None == U(0 - 1, 0)
\* An absent field_name (rendered UNKNOWN).
NoField == "UNKNOWN"

Min(a, b) == IF a < b THEN a ELSE b
Max(a, b) == IF a > b THEN a ELSE b

\* The first n elements of s (all of s when it is shorter).
Take(s, n) == SubSeq(s, 1, Min(n, Len(s)))
\* io::Read::take with a u32 limit; a source is shorter than 2^24 bytes.
TakeU32(s, limit) == IF limit.hi > 0 THEN s ELSE Take(s, limit.lo)
\* s without its first n elements.
Drop(s, n) == SubSeq(s, Min(n, Len(s)) + 1, Len(s))

RECURSIVE Repeat(_, _)
Repeat(b, n) == IF n <= 0 THEN <<>> ELSE <<b>> \o Repeat(b, n - 1)

RECURSIVE Concat(_)
Concat(ss) == IF ss = <<>> THEN <<>> ELSE Head(ss) \o Concat(Tail(ss))

\* ------------------------------------------------------- primitive formats

\* Integer4::write: four bytes, big-endian.
Integer4_write(v) ==
    << v.hi, (v.lo \div 65536) % 256, (v.lo \div 256) % 256, v.lo % 256 >>

\* Integer1::write.
Integer1_write(v) == << v % 256 >>

\* The outcome of a read: ok, the value, the error kind, the position after it.
ReadOk(v, p) == [ok |-> TRUE, value |-> v, err |-> "", pos |-> p]
ReadErr(e, p) == [ok |-> FALSE, value |-> <<>>, err |-> e, pos |-> p]

\* Integer4::read: read_exact of 4 bytes; a short read is an UnexpectedEof,
\* which becomes NotEnoughBytes, and it has consumed what there was.
Integer4_read(view, pos) ==
    IF pos + 4 <= Len(view)
    THEN ReadOk(U(view[pos + 1],
                  view[pos + 2] * 65536 + view[pos + 3] * 256 + view[pos + 4]), pos + 4)
    ELSE ReadErr("NotEnoughBytes", Len(view))

\* Integer1::read.
Integer1_read(view, pos) ==
    IF pos + 1 <= Len(view)
    THEN ReadOk(<< view[pos + 1] >>, pos + 1)
    ELSE ReadErr("NotEnoughBytes", Len(view))

\* The index of the first zero byte of s, or 0.
RECURSIVE FirstZero(_, _)
FirstZero(s, i) ==
    IF i > Len(s) THEN 0 ELSE IF s[i] = 0 THEN i ELSE FirstZero(s, i + 1)

IsAscii(s) == \A i \in 1..Len(s) : s[i] < 128

\* COctetString::read: at most max_len bytes are scanned for the terminator.
\* No terminator in max_len bytes is "too long"; the view ending first is
\* "does not end with the NULL character" (pdu.rs tests, lines 301 and 319).
COctetString_read(view, pos, max_len) ==
    LET avail == Take(Drop(view, pos), max_len)
        z == FirstZero(avail, 1)
    IN  IF z = 0
        THEN IF Len(avail) = max_len
             THEN ReadErr("OctetStringTooLong", pos + Len(avail))
             ELSE ReadErr("DoesNotEndWithZeroByte", pos + Len(avail))
        ELSE IF ~IsAscii(SubSeq(avail, 1, z - 1))
             THEN ReadErr("OctetStringNotAscii", pos + z)
             ELSE ReadOk(SubSeq(avail, 1, z - 1), pos + z)

\* COctetString::write: the bytes and the terminator.
COctetString_write(s) == s \o <<0>>

\* ------------------------------------------------------------- error model

PduParseError_new(body, arg) ==
    [body |-> body, arg |-> arg, command_id |-> None, command_status |-> None,
     sequence_number |-> None, field_name |-> NoField]

into_with_field_name(e, field_name) == [e EXCEPT !.field_name = field_name]

\* Header context is filled in only where it is still absent.
into_with_header(e, command_id, command_status, sequence_number) ==
    [e EXCEPT
        !.command_id = IF @ = None THEN command_id ELSE @,
        !.command_status = IF @ = None THEN command_status ELSE @,
        !.sequence_number = IF @ = None THEN sequence_number ELSE @]

\* fld: a failed field read becomes a PduParseError naming the field.
fld(field_name, r) ==
    IF r.ok THEN r
    ELSE [r EXCEPT !.err = into_with_field_name(PduParseError_new(r.err, None), field_name)]

\* validate_command_length: "" when 8 <= command_length <= 70000.
validate_command_length(command_length) ==
    IF U32_lt(command_length, MIN_PDU_LENGTH) THEN "LengthTooShort"
    ELSE IF U32_gt(command_length, MAX_PDU_LENGTH) THEN "LengthTooLong"
    ELSE ""

\* ------------------------------------------------------------- body codecs

\* A field of a body, in wire order: a C-octet string of at most max bytes
\* (terminator included), or a one-byte integer when max is 0.
Fld(name, max) == [name |-> name, max |-> max]

ReadField(f, view, pos) ==
    IF f.max = 0
    THEN fld(f.name, Integer1_read(view, pos))
    ELSE fld(f.name, COctetString_read(view, pos, f.max))

\* The fields are read in order and the first failure is returned (the ? operator).
RECURSIVE ReadFields(_, _, _, _)
ReadFields(fields, view, pos, acc) ==
    IF fields = <<>> THEN ReadOk(acc, pos)
    ELSE LET r == ReadField(Head(fields), view, pos)
         IN  IF r.ok THEN ReadFields(Tail(fields), view, r.pos, Append(acc, r.value))
             ELSE r

BindTransmitterFields ==
    << Fld("system_id", MAX_LENGTH_SYSTEM_ID),
       Fld("password", MAX_LENGTH_PASSWORD),
       Fld("system_type", MAX_LENGTH_SYSTEM_TYPE),
       Fld("interface_version", 0),
       Fld("addr_ton", 0),
       Fld("addr_npi", 0),
       Fld("address_range", MAX_LENGTH_ADDRESS_RANGE) >>

Body(variant, fields) == [variant |-> variant, fields |-> fields]

\* BindTransmitterPdu::parse with the status check made before the fields are read.
BindTransmitterPdu_parse_status_first(view, pos, command_status) ==
    IF command_status # U32(0)
    THEN ReadErr(into_with_field_name(PduParseError_new("StatusIsNotZero", command_status),
                                      "command_status"), pos)
    ELSE LET r == ReadFields(BindTransmitterFields, view, pos, <<>>)
         IN  IF ~r.ok THEN r ELSE ReadOk(Body("BindTransmitter", r.value), r.pos)

\* BindTransmitterPdu::parse: the seven fields, then the status check.
BindTransmitterPdu_parse(view, pos, command_status) ==
    LET r == ReadFields(BindTransmitterFields, view, pos, <<>>)
    IN  IF ~r.ok THEN r
        ELSE IF command_status # U32(0)
        THEN ReadErr(into_with_field_name(
                        PduParseError_new("StatusIsNotZero", command_status),
                        "command_status"), r.pos)
        ELSE ReadOk(Body("BindTransmitter", r.value), r.pos)

\* SubmitSmRespPdu::parse without the look at the next byte when the status is not zero.
SubmitSmRespPdu_parse_no_peek(view, pos, command_status) ==
    IF command_status = U32(0)
    THEN LET r == fld("message_id", COctetString_read(view, pos, MAX_LENGTH_MESSAGE_ID))
         IN  IF ~r.ok THEN r
             ELSE ReadOk(Body("SubmitSmResp", << r.value >>), r.pos)
    ELSE ReadOk(Body("SubmitSmResp", <<>>), pos)

\* SubmitSmRespPdu::parse: message_id is Some (one field) when command_status
\* is zero, and None (no field) otherwise, when no body byte can be read.
SubmitSmRespPdu_parse(view, pos, command_status) ==
    IF command_status = U32(0)
    THEN LET r == fld("message_id", COctetString_read(view, pos, MAX_LENGTH_MESSAGE_ID))
         IN  IF ~r.ok THEN r
             ELSE ReadOk(Body("SubmitSmResp", << r.value >>), r.pos)
    ELSE IF pos < Len(view)
         THEN ReadErr(PduParseError_new("BodyNotAllowedWhenStatusIsNotZero", command_status),
                      pos + 1)
         ELSE ReadOk(Body("SubmitSmResp", <<>>), pos)

\* BindTransmitterRespPdu::parse: system_id.
BindTransmitterRespPdu_parse(view, pos, command_status) ==
    LET r == fld("system_id", COctetString_read(view, pos, MAX_LENGTH_SYSTEM_ID))
    IN  IF ~r.ok THEN r
        ELSE ReadOk(Body("BindTransmitterResp", << r.value >>), r.pos)

\* The fields of submit_sm before sm_length, in wire order.
SubmitSmFields ==
    << Fld("service_type", 6), Fld("source_addr_ton", 0), Fld("source_addr_npi", 0),
       Fld("source_addr", 21), Fld("dest_addr_ton", 0), Fld("dest_addr_npi", 0),
       Fld("destination_addr", 21), Fld("esm_class", 0), Fld("protocol_id", 0),
       Fld("priority_flag", 0), Fld("schedule_delivery_time", 17),
       Fld("validity_period", 17), Fld("registered_delivery", 0),
       Fld("replace_if_present_flag", 0), Fld("data_coding", 0),
       Fld("sm_default_msg_id", 0) >>

\* SubmitSmPdu::parse: the fixed fields, sm_length, and sm_length bytes of
\* short_message.
SubmitSmPdu_parse(view, pos, command_status) ==
    LET r == ReadFields(SubmitSmFields, view, pos, <<>>)
    IN  IF ~r.ok THEN r
        ELSE LET n == fld("sm_length", Integer1_read(view, r.pos))
             IN  IF ~n.ok THEN n
                 ELSE IF n.pos + n.value[1] > Len(view)
                 THEN fld("short_message", ReadErr("OctetStringIoError", Len(view)))
                 ELSE ReadOk(Body("SubmitSm",
                                  r.value \o << n.value,
                                      SubSeq(view, n.pos + 1, n.pos + n.value[1]) >>),
                             n.pos + n.value[1])

\* parse_body: the dispatch on command_id.
parse_body(view, pos, command_id, command_status) ==
    CASE command_id = U(0, 2) -> BindTransmitterPdu_parse(view, pos, command_status)
      [] command_id = U(128, 2) -> BindTransmitterRespPdu_parse(view, pos, command_status)
      [] command_id = U(0, 4) -> SubmitSmPdu_parse(view, pos, command_status)
      [] command_id = U(128, 4) -> SubmitSmRespPdu_parse(view, pos, command_status)
      [] OTHER -> ReadErr(PduParseError_new("UnknownCommandId", None), pos)

\* ------------------------------------------------------------ Pdu::parse

Pdu(command_id, command_status, sequence_number, body) ==
    [command_id |-> command_id, command_status |-> command_status,
     sequence_number |-> sequence_number, body |-> body]

NoPdu == Pdu(None, None, None, Body("None", <<>>))
NoError == PduParseError_new("", None)

\* What a call of Pdu::parse did: it returned Ok(pdu) or Err(err), or it
\* panicked; consumed is the number of bytes it took from the source.
ParseOk(pdu, consumed) == [kind |-> "Ok", pdu |-> pdu, err |-> NoError, consumed |-> consumed]
ParseErr(err, consumed) == [kind |-> "Err", pdu |-> NoPdu, err |-> err, consumed |-> consumed]
ParsePanic(consumed) == [kind |-> "Panic", pdu |-> NoPdu, err |-> NoError, consumed |-> consumed]
NoResult == [kind |-> "None", pdu |-> NoPdu, err |-> NoError, consumed |-> 0]

\* hfld reporting the short read whatever the command_length.
hfld_short_read_first(field_name, view, pos, command_length) ==
    fld(field_name, Integer4_read(view, pos))

\* hfld handing on the read error without the name of the field.
hfld_without_field_name(field_name, view, pos, command_length) ==
    LET r == Integer4_read(view, pos)
    IN  IF r.ok THEN r
        ELSE IF validate_command_length(command_length) # ""
        THEN [r EXCEPT !.err = PduParseError_new(validate_command_length(command_length),
                                                 command_length)]
        ELSE [r EXCEPT !.err = PduParseError_new(r.err, None)]

\* hfld: a header field; a failed read reports an invalid command_length in
\* preference to the short read.
hfld(field_name, view, pos, command_length) ==
    LET r == Integer4_read(view, pos)
    IN  IF r.ok THEN r
        ELSE IF validate_command_length(command_length) # ""
        THEN [r EXCEPT !.err = PduParseError_new(validate_command_length(command_length),
                                                 command_length)]
        ELSE fld(field_name, r)

\* The limit without the four bytes of command_length taken off.
TakeLimit_whole_length(command_length) == command_length

\* The limit given to take(): command_length.value - 4 is a u32 subtraction,
\* which wraps around in a build without overflow checks.
TakeLimit(command_length) == wrapping_sub(command_length, 4)

\* The map_err closure on a failed read of command_status.
status_context(e, command_id) == into_with_header(e, command_id, None, None)

\* The closure handing on the context of the command_status closure.
sequence_context_without_status(e, command_id, command_status) ==
    into_with_header(e, command_id, None, None)

\* The map_err closure on a failed read of sequence_number.
sequence_context(e, command_id, command_status) ==
    into_with_header(e, command_id, command_status, None)

\* The map_err closures on a failed length validation and on a failed body.
header_context(e, command_id, command_status, sequence_number) ==
    into_with_header(e, command_id, command_status, sequence_number)

\* The closure without the read of one more byte.
no_bytes_left_over_unchecked(ret, view, command_length) == ret

\* The and_then closure on a parsed body: one more byte is read from the
\* bounded view, and there should be none.
no_bytes_left_over(ret, view, command_length) ==
    IF ret.pos < Len(view)
    THEN ReadErr(PduParseError_new("LengthLongerThanPdu", command_length), ret.pos + 1)
    ELSE ret

\* Pdu::parse on the unread bytes of a source, in a build with (debug) or
\* without (release) overflow checks.
Pdu_parse(bytes, bld) ==
    LET len == Integer4_read(bytes, 0)
    IN
    IF ~len.ok THEN ParseErr(PduParseError_new(len.err, None), len.pos)
    ELSE
    LET command_length == len.value
    IN
    IF U32_lt(command_length, 4) /\ bld = "debug" THEN ParsePanic(4)
    ELSE
    LET view == TakeU32(Drop(bytes, 4), TakeLimit(command_length))
        id == hfld("command_id", view, 0, command_length)
    IN
    IF ~id.ok THEN ParseErr(id.err, 4 + id.pos)
    ELSE
    LET command_id == id.value
        st == hfld("command_status", view, id.pos, command_length)
    IN
    IF ~st.ok THEN ParseErr(status_context(st.err, command_id), 4 + st.pos)
    ELSE
    LET command_status == st.value
        sn == hfld("sequence_number", view, st.pos, command_length)
    IN
    IF ~sn.ok
    THEN ParseErr(sequence_context(sn.err, command_id, command_status), 4 + sn.pos)
    ELSE
    LET sequence_number == sn.value
        parsed == parse_body(view, sn.pos, command_id, command_status)
        body == IF parsed.ok THEN no_bytes_left_over(parsed, view, command_length)
                ELSE parsed
    IN
    IF validate_command_length(command_length) # ""
    THEN ParseErr(header_context(
                      PduParseError_new(validate_command_length(command_length),
                                        command_length),
                      command_id, command_status, sequence_number), 4 + sn.pos)
    ELSE IF ~body.ok
    THEN ParseErr(header_context(body.err, command_id, command_status, sequence_number),
                  4 + body.pos)
    ELSE ParseOk(Pdu(command_id, command_status, sequence_number, body.value), 4 + body.pos)

\* ------------------------------------------------------------ Pdu::check

\* check::check: Ready when the length field and command_length bytes in all
\* are buffered; only the byte count is looked at.
check(bytes) ==
    LET len == Integer4_read(bytes, 0)
    IN  IF ~len.ok THEN "Incomplete"
        ELSE IF ~U32_gt(len.value, Len(bytes)) THEN "Ready" ELSE "Incomplete"

\* Ready as soon as the length field is buffered.
Pdu_check_length_field_only(bytes) ==
    IF Integer4_read(bytes, 0).ok THEN "Ready" ELSE "Incomplete"

\* Pdu::check.
Pdu_check(bytes) == check(bytes)

\* ------------------------------------------------------------ Pdu::write

\* The body's write: its bytes, or written = FALSE where the codec is todo!().
Written(bytes) == [written |-> TRUE, bytes |-> bytes]
Todo == [written |-> FALSE, bytes |-> <<>>]

BindTransmitterPdu_write(body) == Todo

SubmitSmRespPdu_write(body) == Todo

BindTransmitterRespPdu_write(body) == Written(COctetString_write(body.fields[1]))

GenericNackPdu_write(body) == Written(<<>>)

\* SubmitSmPdu::write: every field in wire order; the C-octet strings are
\* those SubmitSmFields gives a maximum length.
SubmitSmPdu_write(body) ==
    Written(Concat([i \in 1..Len(body.fields) |->
        IF i <= Len(SubmitSmFields) /\ SubmitSmFields[i].max > 0
        THEN COctetString_write(body.fields[i])
        ELSE body.fields[i]]))

PduBody_write(body) ==
    CASE body.variant = "BindTransmitter" -> BindTransmitterPdu_write(body)
      [] body.variant = "BindTransmitterResp" -> BindTransmitterRespPdu_write(body)
      [] body.variant = "GenericNack" -> GenericNackPdu_write(body)
      [] body.variant = "SubmitSm" -> SubmitSmPdu_write(body)
      [] body.variant = "SubmitSmResp" -> SubmitSmRespPdu_write(body)

\* The scratch buffer with the body in front of the header fields.
WriteBuf_body_first(p) ==
    PduBody_write(p.body).bytes \o Integer4_write(p.command_id)
        \o Integer4_write(p.command_status) \o Integer4_write(p.sequence_number)

\* The scratch buffer of Pdu::write: the header after command_length, and the body.
WriteBuf(p) ==
    Integer4_write(p.command_id) \o Integer4_write(p.command_status)
        \o Integer4_write(p.sequence_number) \o PduBody_write(p.body).bytes

\* Pdu::write to a sink whose write call accepts `accepted` bytes of the
\* buffer it is offered: the outcome, the bytes the sink received and the
\* bytes the write calls were given.
Pdu_write(p, accepted) ==
    IF ~PduBody_write(p.body).written
    THEN [kind |-> "Panic", sent |-> <<>>, offered |-> <<>>]
    ELSE LET buf == WriteBuf(p)
             command_length == U32(Len(buf) + 4)
         IN  [kind |-> "Ok",
              sent |-> Integer4_write(command_length) \o Take(buf, accepted),
              offered |-> Integer4_write(command_length) \o buf]

\* ------------------------------------------------------------- the inputs

\* A field as it lies on the wire: its name, its bytes, and whether the bytes
\* are a well-formed value of the field when all of them can be read.
Chunk(name, bytes, ok) == [name |-> name, bytes |-> bytes, ok |-> ok]

CStr(name, s) == Chunk(name, s \o <<0>>, TRUE)
Int1(name, v) == Chunk(name, <<v>>, TRUE)
\* No terminator within the field's maximum.
TooLong(name, max) == Chunk(name, Repeat(65, max), FALSE)
\* A byte above 0x7F before the terminator.
NotAscii(name) == Chunk(name, <<65, 200, 0>>, FALSE)

ChunkBytes(chunks) == Concat([i \in 1..Len(chunks) |-> chunks[i].bytes])

\* bind_transmitter bodies: well formed (pdu.rs, parse_valid_bind_transmitter) ...
BindTransmitterChunks(system_id) ==
    << CStr("system_id", system_id), CStr("password", <<112, 119>>),
       CStr("system_type", <<>>), Int1("interface_version", 52),
       Int1("addr_ton", 19), Int1("addr_npi", 80), CStr("address_range", <<>>) >>

\* ... and with one string field malformed.
BindTransmitterBodies ==
    { BindTransmitterChunks(<<>>), BindTransmitterChunks(<<65>>) }
    \cup UNION { { [BindTransmitterChunks(<<65>>) EXCEPT ![k] = bad] :
                     bad \in { TooLong(BindTransmitterFields[k].name,
                                       BindTransmitterFields[k].max),
                               NotAscii(BindTransmitterFields[k].name) } } :
                   k \in {1, 2, 3, 7} }

SubmitSmRespBodies ==
    { <<>>,
      << CStr("message_id", <<>>) >>,
      << CStr("message_id", <<101, 97>>) >>,
      << NotAscii("message_id") >>,
      << TooLong("message_id", MAX_LENGTH_MESSAGE_ID) >> }

BindTransmitterRespBodies ==
    { << CStr("system_id", <<84, 83>>) >>,
      << TooLong("system_id", MAX_LENGTH_SYSTEM_ID) >> }

\* submit_sm bodies (pdu.rs, parse_valid_submit_sm_with_short_message_and_no_tlvs
\* and parse_submit_sm_with_too_long_message_length).
SubmitSmChunks(sm_length, short_message) ==
    << CStr("service_type", <<>>), Int1("source_addr_ton", 0), Int1("source_addr_npi", 0),
       CStr("source_addr", <<52, 52>>), Int1("dest_addr_ton", 0), Int1("dest_addr_npi", 0),
       CStr("destination_addr", <<52, 55>>), Int1("esm_class", 0), Int1("protocol_id", 1),
       Int1("priority_flag", 1), CStr("schedule_delivery_time", <<>>),
       CStr("validity_period", <<>>), Int1("registered_delivery", 1),
       Int1("replace_if_present_flag", 0), Int1("data_coding", 3),
       Int1("sm_default_msg_id", 0), Int1("sm_length", sm_length),
       Chunk("short_message", short_message, sm_length = Len(short_message)) >>

SubmitSmBodies ==
    { SubmitSmChunks(2, <<104, 105>>), SubmitSmChunks(0, <<>>), SubmitSmChunks(8, <<104, 105>>) }

\* A command_id no codec is registered for.
UNKNOWN_COMMAND_ID == U(0, 3)

CommandIds ==
    { BIND_TRANSMITTER, BIND_TRANSMITTER_RESP, SUBMIT_SM, SUBMIT_SM_RESP, GENERIC_NACK,
      UNKNOWN_COMMAND_ID }

Bodies(command_id) ==
    CASE command_id = BIND_TRANSMITTER -> BindTransmitterBodies
      [] command_id = BIND_TRANSMITTER_RESP -> BindTransmitterRespBodies
      [] command_id = SUBMIT_SM -> SubmitSmBodies
      [] command_id = SUBMIT_SM_RESP -> SubmitSmRespBodies
      [] OTHER -> { <<>>, << CStr("system_id", <<>>) >> }

\* command_status and sequence_number as the tests pair them.
StatusAndSequence == { << U32(0), U(1, 131908) >>, << U32(7), U32(4) >> }

\* Declared lengths around the bounds of validate_command_length, of the
\* header fields and of the u32 range.
SpecialLengths ==
    { U32(n) : n \in { 0, 1, 3, 4, 5, 7, 8, 11, 12, 15, 16, MAX_PDU_LENGTH,
                       MAX_PDU_LENGTH + 1 } }
    \cup { U(1, 0), U(255, Lo24 - 1) }

\* A record handed to the byte source: the header values, the body's chunks,
\* `extra` bytes after them, and how many bytes of all that the source holds.
Input(command_length, command_id, command_status, sequence_number, chunks, extra, avail) ==
    [command_length |-> command_length, command_id |-> command_id,
     command_status |-> command_status, sequence_number |-> sequence_number,
     chunks |-> chunks, extra |-> extra, avail |-> avail]

NoInput == Input(None, None, None, None, <<>>, 0, 0)

\* Every byte of the record.
RecordBytes(i) ==
    Integer4_write(i.command_length) \o Integer4_write(i.command_id)
        \o Integer4_write(i.command_status) \o Integer4_write(i.sequence_number)
        \o ChunkBytes(i.chunks) \o Repeat(101, i.extra)

\* The bytes the source holds.
SourceBytes(i) == Take(RecordBytes(i), i.avail)

\* The length of the header plus the body's chunks.
ExactLength(chunks) == 16 + Len(ChunkBytes(chunks))

\* The declared length and the held bytes of a record whose header and chunks
\* are `exact` bytes long: a special length over a full or cut header, a
\* length off by some bytes over the full record, or the right length over
\* a record cut short.
LengthAndAvail(exact, extra) ==
    { << l, a >> : l \in SpecialLengths, a \in (0..16) \cup { exact + extra } }
    \cup { << U32(Max(0, exact + d)), exact + extra >> : d \in (0 - MaxCut)..extra }
    \cup { << U32(exact + extra), Max(0, exact + extra - k) >> : k \in 1..MaxCut }

\* ------------------------------------------------------------ constructors

\* Pdu::new.
Pdu_new(command_id, command_status, sequence_number, body) ==
    Pdu(command_id, command_status, sequence_number, body)

GenericNackPdu_new_error == Body("GenericNack", <<>>)

\* BindTransmitterRespPdu::new and new_error (an empty system_id).
BindTransmitterRespPdu_new(system_id) == Body("BindTransmitterResp", << system_id >>)
BindTransmitterRespPdu_new_error == Body("BindTransmitterResp", << <<>> >>)

\* SubmitSmRespPdu::new (message_id is Some) and new_error (message_id is None).
SubmitSmRespPdu_new(message_id) == Body("SubmitSmResp", << message_id >>)
SubmitSmRespPdu_new_error == Body("SubmitSmResp", <<>>)

BindTransmitterPdu_new(system_id, password, system_type, interface_version, addr_ton, addr_npi, address_range) ==
    Body("BindTransmitter",
         << system_id, password, system_type, << interface_version >>, << addr_ton >>,
            << addr_npi >>, address_range >>)

\* SubmitSmPdu::new, with the values of the chunks of a submit_sm body.
SubmitSmPdu_new(chunks) ==
    Body("SubmitSm",
         [k \in 1..Len(chunks) |->
            IF k <= Len(SubmitSmFields) /\ SubmitSmFields[k].max > 0
            THEN SubSeq(chunks[k].bytes, 1, Len(chunks[k].bytes) - 1)
            ELSE chunks[k].bytes])

Pdu_new_generic_nack_error(command_status, sequence_number) ==
    Pdu_new(GENERIC_NACK, command_status, sequence_number, GenericNackPdu_new_error)

Pdu_new_bind_transmitter_resp(sequence_number, system_id) ==
    Pdu_new(BIND_TRANSMITTER_RESP, U32(0), sequence_number,
            BindTransmitterRespPdu_new(system_id))

Pdu_new_bind_transmitter_resp_error(command_status, sequence_number) ==
    Pdu_new(BIND_TRANSMITTER_RESP, command_status, sequence_number,
            BindTransmitterRespPdu_new_error)

Pdu_new_submit_sm_resp_error(command_status, sequence_number) ==
    Pdu_new(SUBMIT_SM_RESP, command_status, sequence_number, SubmitSmRespPdu_new_error)

SequenceNumbers == { U32(2), U(1, 131908) }

\* Well-formed PDUs of the variants Pdu::parse has a codec for.
ParseablePdus ==
    { Pdu_new(BIND_TRANSMITTER, U32(0), sn,
              BindTransmitterPdu_new(id, <<112, 119>>, <<>>, 52, 19, 80, <<114>>)) :
        sn \in SequenceNumbers, id \in { <<>>, <<109, 121>> } }
    \cup { Pdu_new_bind_transmitter_resp(sn, id) :
             sn \in SequenceNumbers, id \in { <<>>, <<84, 83>> } }
    \cup { Pdu_new(SUBMIT_SM, U32(0), U32(3), SubmitSmPdu_new(SubmitSmChunks(2, <<104, 105>>))),
           Pdu_new(SUBMIT_SM, U32(0), U32(3), SubmitSmPdu_new(SubmitSmChunks(0, <<>>))) }
    \cup { Pdu_new(SUBMIT_SM_RESP, U32(0), sn, SubmitSmRespPdu_new(<<101, 97>>)) :
             sn \in SequenceNumbers }
    \cup { Pdu_new_submit_sm_resp_error(U32(7), sn) : sn \in SequenceNumbers }

\* Valid PDUs of every variant.
ValidPdus ==
    ParseablePdus
    \cup { Pdu_new_generic_nack_error(st, sn) : st \in { U32(3), U32(7) }, sn \in SequenceNumbers }
    \cup { Pdu_new_bind_transmitter_resp_error(U32(13), sn) : sn \in SequenceNumbers }

\* The body of a PDU on the wire: each field in order, a C-octet string with
\* its terminator (the byte strings of the parse_valid_* tests).
WireBody(body) ==
    LET fields == CASE body.variant = "BindTransmitter" -> BindTransmitterFields
                    [] body.variant = "SubmitSm" -> SubmitSmFields
                    [] OTHER -> << Fld("string", 1) >>
    IN  Concat([k \in 1..Len(body.fields) |->
            IF k <= Len(fields) /\ fields[k].max > 0
            THEN body.fields[k] \o <<0>>
            ELSE body.fields[k]])

\* A whole PDU on the wire, command_length being the number of its bytes.
WirePdu(p) ==
    Integer4_write(U32(16 + Len(WireBody(p.body)))) \o Integer4_write(p.command_id)
        \o Integer4_write(p.command_status) \o Integer4_write(p.sequence_number)
        \o WireBody(p.body)

\* ------------------------------------------------------------------ state

VARIABLES
    build,      \* "debug" (overflow checks) or "release" (wrapping arithmetic)
    input,      \* the record the peer sent
    wire,       \* the bytes of it still in flight
    source,     \* the bytes of the byte source that are not consumed yet
    result,     \* the outcome of the last Pdu::parse
    outcome,    \* the outcome of the last Pdu::check and the buffer length it saw
    queue,      \* the PDUs whose bytes were put in the source, in order
    trailing,   \* the number of other bytes put in the source after them
    parsed,     \* the outcomes of the Pdu::parse calls on the stream, in order
    pdu,        \* the PDU given to Pdu::write
    written,    \* the outcome of Pdu::write
    sink,       \* the bytes the sink has accepted
    offered     \* the bytes Pdu::write handed to the sink's write calls

vars ==
    << build, input, wire, source, result, outcome, queue, trailing, parsed, pdu, written,
       sink, offered >>

Builds == { "debug", "release" }

NoOutcome == [at |-> 0, is |-> "None"]

Init ==
    /\ build \in Builds
    /\ input = NoInput
    /\ wire = <<>>
    /\ source = <<>>
    /\ result = NoResult
    /\ outcome = NoOutcome
    /\ queue = <<>>
    /\ trailing = 0
    /\ parsed = <<>>
    /\ pdu = NoPdu
    /\ written = "None"
    /\ sink = <<>>
    /\ offered = <<>>

\* ---- one record, parsed

\* The transport fills the source with (a part of) a record.
Receive ==
    /\ input = NoInput
    /\ \E id \in CommandIds, ss \in StatusAndSequence, extra \in 0..MaxExtra :
        \E chunks \in Bodies(id) :
            \E la \in LengthAndAvail(ExactLength(chunks), extra) :
                /\ input' = Input(la[1], id, ss[1], ss[2], chunks, extra, la[2])
                /\ source' = SourceBytes(input')
    /\ UNCHANGED << build, wire, result, outcome, queue, trailing, parsed, pdu, written, sink, offered >>

\* Pdu::parse on the source.
Parse ==
    /\ input # NoInput
    /\ result = NoResult
    /\ result' = Pdu_parse(source, build)
    /\ source' = Drop(source, result'.consumed)
    /\ UNCHANGED << build, input, wire, outcome, queue, trailing, parsed, pdu, written, sink, offered >>

Next ==
    \/ Receive
    \/ Parse

Spec == Init /\ [][Next]_vars

\* ---- one record, arriving byte by byte in a buffer that is checked

\* The peer sends a bind_transmitter_resp with any declared length, whole, and
\* some bytes after it.
Send ==
    /\ input = NoInput
    /\ \E ss \in StatusAndSequence, chunks \in Bodies(BIND_TRANSMITTER_RESP) :
        \E la \in { x \in LengthAndAvail(ExactLength(chunks), MaxExtra) :
                      x[2] = ExactLength(chunks) + MaxExtra } :
            /\ input' = Input(la[1], BIND_TRANSMITTER_RESP, ss[1], ss[2], chunks, MaxExtra,
                              la[2])
            /\ wire' = SourceBytes(input')
    /\ UNCHANGED << build, source, result, outcome, queue, trailing, parsed, pdu, written,
                    sink, offered >>

\* One more byte is buffered.
Arrive ==
    /\ wire # <<>>
    /\ source' = Append(source, Head(wire))
    /\ wire' = Tail(wire)
    /\ UNCHANGED << build, input, result, outcome, queue, trailing, parsed, pdu, written,
                    sink, offered >>

\* Pdu::check on the buffer, which it leaves as it is.
Check ==
    /\ input # NoInput
    /\ outcome' = [at |-> Len(source), is |-> Pdu_check(source)]
    /\ UNCHANGED << build, input, wire, source, result, queue, trailing, parsed, pdu,
                    written, sink, offered >>

NextCheck ==
    \/ Send
    \/ Arrive
    \/ Check

SpecCheck == Init /\ [][NextCheck]_vars

\* ---- a stream of PDUs, parsed one after the other

\* The bytes of one more PDU are put in the source.
Push ==
    /\ Len(queue) < MaxStream
    /\ trailing = 0
    /\ \E p \in ParseablePdus :
        /\ queue' = Append(queue, p)
        /\ source' = source \o WirePdu(p)
    /\ UNCHANGED << build, input, wire, result, outcome, trailing, parsed, pdu, written,
                    sink, offered >>

\* Other bytes are put in the source after the last PDU.
PushExtra ==
    /\ queue # <<>>
    /\ trailing = 0
    /\ \E n \in 1..MaxExtra :
        /\ trailing' = n
        /\ source' = source \o Repeat(101, n)
    /\ UNCHANGED << build, input, wire, result, outcome, queue, parsed, pdu, written, sink, offered >>

\* Pdu::parse on the source, while a PDU is in it.
ParseNext ==
    /\ Len(parsed) < Len(queue)
    /\ parsed' = Append(parsed, Pdu_parse(source, build))
    /\ source' = Drop(source, parsed'[Len(parsed')].consumed)
    /\ UNCHANGED << build, input, wire, result, outcome, queue, trailing, pdu, written,
                    sink, offered >>

NextStream ==
    \/ Push
    \/ PushExtra
    \/ ParseNext

SpecStream == Init /\ [][NextStream]_vars

\* ---- a PDU written to a sink, and the sink's bytes parsed

\* Pdu::write of a valid PDU to a sink whose write call accepts all bytes it
\* is offered, or some bytes fewer.
Write ==
    /\ pdu = NoPdu
    /\ \E p \in ValidPdus, short \in 0..MaxShort :
        LET w == Pdu_write(p, Len(WriteBuf(p)) - short)
        IN  /\ pdu' = p
            /\ written' = w.kind
            /\ sink' = w.sent
            /\ offered' = w.offered
    /\ UNCHANGED << build, input, wire, source, result, outcome, queue, trailing, parsed >>

\* Pdu::parse on the bytes the sink accepted.
ParseWritten ==
    /\ written = "Ok"
    /\ result = NoResult
    /\ result' = Pdu_parse(sink, build)
    /\ UNCHANGED << build, input, wire, source, outcome, queue, trailing, parsed, pdu,
                    written, sink, offered >>

NextWrite ==
    \/ Write
    \/ ParseWritten

SpecWrite == Init /\ [][NextWrite]_vars

\* ---- a PDU obtained through the public interface

\* A body of every variant of PduBody.
PduBodies ==
    { BindTransmitterPdu_new(<<109, 121>>, <<112, 119>>, <<>>, 52, 19, 80, <<114>>),
      BindTransmitterRespPdu_new(<<84, 83>>),
      BindTransmitterRespPdu_new_error,
      GenericNackPdu_new_error,
      SubmitSmPdu_new(SubmitSmChunks(2, <<104, 105>>)),
      SubmitSmRespPdu_new(<<101, 97>>),
      SubmitSmRespPdu_new_error }

\* Pdu::new, called with any command_id and any body.
New ==
    /\ pdu = NoPdu
    /\ input = NoInput
    /\ \E id \in CommandIds, ss \in StatusAndSequence, body \in PduBodies :
        pdu' = Pdu_new(id, ss[1], ss[2], body)
    /\ UNCHANGED << build, input, wire, source, result, outcome, queue, trailing, parsed,
                    written, sink, offered >>

\* One of the new_* constructors of a response.
NewResponse ==
    /\ pdu = NoPdu
    /\ input = NoInput
    /\ \E ss \in StatusAndSequence :
        pdu' \in { Pdu_new_generic_nack_error(ss[1], ss[2]),
                   Pdu_new_bind_transmitter_resp(ss[2], <<84, 83>>),
                   Pdu_new_bind_transmitter_resp_error(ss[1], ss[2]),
                   Pdu_new_submit_sm_resp_error(ss[1], ss[2]) }
    /\ UNCHANGED << build, input, wire, source, result, outcome, queue, trailing, parsed,
                    written, sink, offered >>

\* Pdu::parse of a record, when no PDU was constructed.
ReceiveRecord == pdu = NoPdu /\ Receive

NextPublic ==
    \/ New
    \/ NewResponse
    \/ ReceiveRecord
    \/ Parse

SpecPublic == Init /\ [][NextPublic]_vars

\* ------------------------------------------- what an input holds, by chunks

Parsed == result # NoResult

Failed(kind) == result.kind = "Err" /\ result.err.body = kind

\* The bytes the bounded view holds after the length field: those the declared
\* length covers and the source has. A declared length below 4 leaves the
\* view unbounded in a build where the subtraction wraps.
ViewLength(i) ==
    IF i.avail < 4 THEN 0
    ELSE IF i.command_length.hi > 0 \/ i.command_length.lo < 4 THEN i.avail - 4
    ELSE Min(i.avail, i.command_length.lo) - 4

\* The three header fields can be read and the declared length is within bounds,
\* so that parse_body is called.
BodyReached(i) ==
    /\ ViewLength(i) >= 12
    /\ ~U32_lt(i.command_length, MIN_PDU_LENGTH)
    /\ ~U32_gt(i.command_length, MAX_PDU_LENGTH)

\* The body bytes the bounded view holds.
ViewBody(i) == ViewLength(i) - 12

\* The offset in the body at which chunk k ends.
ChunkEnd(chunks, k) == Len(ChunkBytes(SubSeq(chunks, 1, k)))

\* The first chunk that is malformed or does not lie within the first n body
\* bytes; 0 when there is none.
FirstBad(chunks, n) ==
    LET bad == { k \in 1..Len(chunks) : ~chunks[k].ok \/ ChunkEnd(chunks, k) > n }
    IN  IF bad = {} THEN 0 ELSE CHOOSE k \in bad : \A j \in bad : k <= j

StructuralErrors ==
    { "NotEnoughBytes", "OctetStringTooLong", "DoesNotEndWithZeroByte",
      "OctetStringNotAscii", "OctetStringIoError" }

\* The header context of the error is what the input's header says.
FullContext ==
    /\ result.err.command_id = input.command_id
    /\ result.err.command_status = input.command_status
    /\ result.err.sequence_number = input.sequence_number

\* ------------------------------------------------------------------ claims

\* C4: a declared command_length of 0..7 makes Pdu::parse return the error
\* LengthTooShort, whatever follows the length field.
C4_LengthTooShort ==
    (Parsed /\ input.avail >= 4 /\ U32_lt(input.command_length, MIN_PDU_LENGTH))
        => Failed("LengthTooShort")

\* C5: a declared command_length above 70000 makes Pdu::parse return the error
\* LengthTooLong, also when the input ends inside a header field, and no
\* body byte is read.
C5_LengthTooLong ==
    (Parsed /\ input.avail >= 4 /\ U32_gt(input.command_length, MAX_PDU_LENGTH))
        => (Failed("LengthTooLong") /\ result.consumed <= 16)

C5_Witness ==
    /\ Parsed /\ U32_gt(input.command_length, MAX_PDU_LENGTH)
    /\ input.avail = 11
    /\ Failed("LengthTooLong")

C5_WitnessFullHeader ==
    /\ Parsed /\ U32_gt(input.command_length, MAX_PDU_LENGTH)
    /\ input.avail > 16
    /\ Failed("LengthTooLong") /\ FullContext

\* The body codec of the input's command_id reads all its fields successfully.
CodecFinishes(i) ==
    /\ BodyReached(i)
    /\ i.command_id \in { BIND_TRANSMITTER, BIND_TRANSMITTER_RESP, SUBMIT_SM, SUBMIT_SM_RESP }
    /\ i.chunks # <<>>
    /\ FirstBad(i.chunks, ViewBody(i)) = 0
    /\ i.command_id \in { BIND_TRANSMITTER, SUBMIT_SM_RESP } => i.command_status = U32(0)

C7_StatusIsNotZero ==
    (Parsed /\ input.command_id = BIND_TRANSMITTER /\ input.command_status # U32(0)
        /\ input.avail >= 12)
        => /\ result.kind # "Ok"
           /\ BodyReached(input) =>
                LET k == FirstBad(input.chunks, ViewBody(input))
                IN  IF k = 0
                    THEN Failed("StatusIsNotZero") /\ result.err.field_name = "command_status"
                    ELSE /\ result.kind = "Err"
                         /\ result.err.body \in StructuralErrors
                         /\ result.err.field_name = input.chunks[k].name

C7_Witness ==
    /\ Parsed /\ input.command_id = BIND_TRANSMITTER /\ input.command_status # U32(0)
    /\ BodyReached(input)
    /\ FirstBad(input.chunks, ViewBody(input)) = 0
    /\ Failed("StatusIsNotZero")

C7_WitnessMalformed ==
    /\ Parsed /\ input.command_id = BIND_TRANSMITTER /\ input.command_status # U32(0)
    /\ BodyReached(input)
    /\ FirstBad(input.chunks, ViewBody(input)) = 7
    /\ result.err.field_name = "address_range"

\* C8: submit_sm_resp. With command_status 0 the parse succeeds only with a
\* terminated message_id in the body, and an empty body is an error on
\* message_id; with a nonzero command_status it succeeds, without message_id,
\* exactly when the body within the declared length holds no byte, and fails
\* with BodyNotAllowedWhenStatusIsNotZero when it holds one.
C8_SubmitSmRespPresence ==
    (Parsed /\ input.command_id = SUBMIT_SM_RESP /\ BodyReached(input))
        => IF input.command_status = U32(0)
           THEN /\ result.kind = "Ok" =>
                    /\ FirstBad(input.chunks, ViewBody(input)) = 0
                    /\ Len(input.chunks) = 1
                    /\ result.pdu.body.fields =
                         << SubSeq(input.chunks[1].bytes, 1, Len(input.chunks[1].bytes) - 1) >>
                /\ ViewBody(input) = 0 =>
                    (result.kind = "Err" /\ result.err.field_name = "message_id")
           ELSE /\ result.kind = "Ok" <=> ViewBody(input) = 0
                /\ result.kind = "Ok" => result.pdu.body = Body("SubmitSmResp", <<>>)
                /\ ViewBody(input) > 0 => Failed("BodyNotAllowedWhenStatusIsNotZero")

C8_Witness ==
    /\ Parsed /\ input.command_id = SUBMIT_SM_RESP /\ BodyReached(input)
    /\ input.command_status # U32(0)
    /\ ViewBody(input) = 1
    /\ Failed("BodyNotAllowedWhenStatusIsNotZero")

C8_WitnessOk ==
    /\ Parsed /\ input.command_id = SUBMIT_SM_RESP /\ BodyReached(input)
    /\ input.command_status # U32(0)
    /\ result.kind = "Ok"

\* The name of the header field that ends after n bytes of the view.
HeaderFieldAt(n) ==
    IF n < 4 THEN "command_id" ELSE IF n < 8 THEN "command_status" ELSE "sequence_number"

\* C9: an error of Pdu::parse carries the header values read before the
\* failure and no others: none when command_length or command_id cannot be
\* read, command_id alone when command_status cannot, command_id and
\* command_status when sequence_number cannot, and all three, with the name
\* of the failing field, when a body field fails.
C9_ErrorContext ==
    (Parsed /\ result.kind = "Err")
        => LET e == result.err
               n == ViewLength(input)
           IN  /\ e.command_id = IF n >= 4 THEN input.command_id ELSE None
               /\ e.command_status = IF n >= 8 THEN input.command_status ELSE None
               /\ e.sequence_number = IF n >= 12 THEN input.sequence_number ELSE None
               /\ (n < 12 /\ e.body = "NotEnoughBytes" /\ input.avail >= 4)
                    => e.field_name = HeaderFieldAt(n)
               /\ (BodyReached(input) /\ e.body \in StructuralErrors /\ input.chunks # <<>>
                    /\ input.command_id \in { BIND_TRANSMITTER, BIND_TRANSMITTER_RESP,
                                              SUBMIT_SM, SUBMIT_SM_RESP })
                    => /\ FirstBad(input.chunks, ViewBody(input)) # 0
                       /\ e.field_name =
                            input.chunks[FirstBad(input.chunks, ViewBody(input))].name

C9_Witness ==
    /\ Parsed /\ result.kind = "Err"
    /\ ViewLength(input) \in 8..11
    /\ result.err.command_id = input.command_id
    /\ result.err.command_status = input.command_status
    /\ result.err.sequence_number = None
    /\ result.err.field_name = "sequence_number"

C9_WitnessBody ==
    /\ Parsed /\ result.kind = "Err"
    /\ BodyReached(input)
    /\ result.err.field_name = "password"
    /\ FullContext

\* The closed set of command_ids.
KnownCommandIds ==
    { BIND_TRANSMITTER, BIND_TRANSMITTER_RESP, SUBMIT_SM, SUBMIT_SM_RESP, GENERIC_NACK }

\* C10: parse_body gives UnknownCommandId for exactly the command_ids outside
\* the closed set, bind_transmitter, bind_transmitter_resp, submit_sm,
\* submit_sm_resp and generic_nack.
C10_Dispatch ==
    (Parsed /\ BodyReached(input))
        => (Failed("UnknownCommandId") <=> input.command_id \notin KnownCommandIds)

\* C2: with fewer than the 4 length bytes, or fewer than command_length bytes,
\* in the buffer Pdu::check returns Incomplete, with command_length bytes or
\* more it returns Ready whatever follows the record, and once it returned
\* Ready it does not return Incomplete for the longer buffer.
C2_Outcome ==
    outcome.is # "None"
        => IF outcome.at < 4 THEN outcome.is = "Incomplete"
           ELSE IF U32_gt(input.command_length, outcome.at) THEN outcome.is = "Incomplete"
           ELSE outcome.is = "Ready"

\* C2: the outcome of every Pdu::check is the one above, and Ready is never
\* followed by Incomplete as the buffer grows.
C2_Check == []C2_Outcome /\ [][outcome.is = "Ready" => outcome'.is = "Ready"]_vars

C2_Witness ==
    /\ outcome.is = "Ready"
    /\ outcome.at = input.command_length.lo
    /\ outcome.at > 16
    /\ wire # <<>>

C2_WitnessIncomplete ==
    /\ outcome.is = "Incomplete"
    /\ outcome.at = input.command_length.lo - 1
    /\ input.command_length.hi = 0
    /\ outcome.at > 16

\* The bytes of the stream that no parse has consumed.
RECURSIVE WirePdus(_)
WirePdus(ps) == IF ps = <<>> THEN <<>> ELSE WirePdu(Head(ps)) \o WirePdus(Tail(ps))

Unparsed == WirePdus(SubSeq(queue, Len(parsed) + 1, Len(queue))) \o Repeat(101, trailing)

\* C3: over a source of complete PDUs back to back, the k-th Pdu::parse
\* returns the k-th PDU and consumes the command_length bytes of it, whatever
\* follows it in the source.
C3_StreamOrder ==
    /\ \A k \in 1..Len(parsed) :
        /\ parsed[k].kind = "Ok"
        /\ parsed[k].pdu = queue[k]
        /\ parsed[k].consumed = Len(WirePdu(queue[k]))
    /\ source = Unparsed

C3_Witness ==
    /\ Len(queue) = 2
    /\ Len(parsed) = 2
    /\ parsed[1].pdu.body.variant = "SubmitSmResp"
    /\ parsed[1].pdu.command_status # U32(0)
    /\ parsed[2].kind = "Ok"
    /\ parsed[2].pdu.body.variant = "BindTransmitter"
    /\ trailing > 0

\* C1: Pdu::write of a valid PDU completes, and Pdu::parse of the bytes it
\* wrote returns the same PDU.
C1_RoundTrip ==
    /\ pdu # NoPdu => written = "Ok"
    /\ (pdu # NoPdu /\ Parsed) => (result.kind = "Ok" /\ result.pdu = pdu)

\* The command_id of each variant of PduBody.
CommandIdOf(variant) ==
    CASE variant = "BindTransmitter" -> BIND_TRANSMITTER
      [] variant = "BindTransmitterResp" -> BIND_TRANSMITTER_RESP
      [] variant = "GenericNack" -> GENERIC_NACK
      [] variant = "SubmitSm" -> SUBMIT_SM
      [] variant = "SubmitSmResp" -> SUBMIT_SM_RESP

\* C11: in every Pdu built by Pdu::new or a new_* constructor or returned by a
\* successful Pdu::parse, command_id is the command id of the body's variant.
C11_CommandIdOfBody ==
    /\ pdu # NoPdu => pdu.command_id = CommandIdOf(pdu.body.variant)
    /\ result.kind = "Ok" => result.pdu.command_id = CommandIdOf(result.pdu.body.variant)

\* C12: Pdu::parse returns Ok only when the source held at least
\* command_length bytes from the length field on.
C12_NoMissingBytes ==
    (Parsed /\ result.kind = "Ok") => ~U32_gt(input.command_length, Len(SourceBytes(input)))

\* The most bytes a parse may take from the source: the declared length, and
\* the length field alone when the declared length is 4 or less.
MaxConsumed(i) ==
    IF i.command_length.hi > 0 THEN Len(RecordBytes(i)) ELSE Max(4, i.command_length.lo)

\* C13: whatever the outcome, Pdu::parse takes from the source no byte beyond
\* the first command_length bytes of the record, and only the 4 length bytes
\* when command_length is 4 or less.
C13_BoundedView ==
    (Parsed /\ input.avail >= 4) => result.consumed <= MaxConsumed(input)

\* C14: the bytes Pdu::write gives to the sink are command_length, command_id,
\* command_status, sequence_number, 4 big-endian bytes each, and then the
\* body, command_length being the number of all these bytes; the sink holds
\* them in that order.
C14_WriteLayout ==
    written = "Ok"
        => /\ offered = WirePdu(pdu)
           /\ Take(offered, 4) = Integer4_write(U32(Len(offered)))
           /\ Len(offered) = 16 + Len(WireBody(pdu.body))
           /\ sink = Take(offered, Len(sink))

C14_Witness ==
    /\ written = "Ok"
    /\ pdu.body.variant = "SubmitSm"
    /\ Len(offered) > 16
    /\ sink = offered

\* C15: when Pdu::write returns Ok the sink has accepted every byte of the
\* encoded PDU, whatever part of a buffer its write call accepts.
C15_AllBytesAccepted == written = "Ok" => sink = offered

\* The declared command_length is one of 8..15.
ShortHeaderLength(i) ==
    i.avail >= 4 /\ i.command_length.hi = 0 /\ i.command_length.lo \in 8..15

\* C16: a declared command_length of 8..15 never parses: Pdu::parse fails with
\* NotEnoughBytes on the first header field that does not fit in the bounded
\* view, command_status for 8..11 and sequence_number for 12..15 when the
\* source holds the declared bytes or more; so a parsed PDU declared a
\* command_length of 16..70000.
C16_ShortHeader ==
    /\ (Parsed /\ ShortHeaderLength(input))
         => /\ Failed("NotEnoughBytes")
            /\ result.err.field_name = HeaderFieldAt(ViewLength(input))
            /\ input.avail >= input.command_length.lo
                 => result.err.field_name =
                      IF input.command_length.lo <= 11 THEN "command_status"
                      ELSE "sequence_number"
    /\ (Parsed /\ result.kind = "Ok")
         => /\ ~U32_lt(input.command_length, 16)
            /\ ~U32_gt(input.command_length, MAX_PDU_LENGTH)

C16_Witness ==
    /\ Parsed /\ ShortHeaderLength(input)
    /\ input.command_length.lo = 15
    /\ input.avail > 16
    /\ Failed("NotEnoughBytes")
    /\ result.err.field_name = "sequence_number"

C16_WitnessStatus ==
    /\ Parsed /\ ShortHeaderLength(input)
    /\ input.command_length.lo = 8
    /\ input.avail > 16
    /\ Failed("NotEnoughBytes")
    /\ result.err.field_name = "command_status"

====
